---- MODULE Spec2Model ----
(***************************************************************************)
(* The schedule/shift/signup request handlers of server/src/schedules.ts,  *)
(* as a state machine over the database tables they read and write.        *)
(*                                                                         *)
(* Every handler is an operator that maps the current database and the     *)
(* request to the set of outcomes it can produce (status, body, database   *)
(* afterwards); the actions of Next apply one outcome.  rows[0] of a query *)
(* without ORDER BY is any row of the result.                              *)
(***************************************************************************)
EXTENDS Integers, FiniteSets, Sequences, TLC

\* ------------------------------------------------------------------ bounds
MaxSchedules == 2       \* schedule rows that can ever exist
MaxShifts    == 2       \* shift ids that can ever be generated
MaxMembers   == 2       \* rows of user_schedule_membership
MaxSignups   == 2       \* rows of user_shift_signup
MaxInFlight  == 2       \* requests between their permission lookup and their mutation

\* --------------------------------------------------------- program values
DefaultWeight == 1      \* weight ?? 1

UserSeq     == <<"u1", "u2", "u3">>
Users       == {UserSeq[i] : i \in DOMAIN UserSeq}
NoUser      == "-"
Roles       == {"owner", "manager", "member"}
ScheduleIds == 1..MaxSchedules
ShiftIds    == 1..MaxShifts
NoId        == 0

\* user_account: one row per user, email unique
user_account == {[id |-> u, email |-> u] : u \in Users}
Emails       == {r.email : r \in user_account} \cup {"stranger"}

\* The Authorization header: absent, a token that fails verification, or a
\* verified token carrying an email.
Tokens == {[kind |-> "missing", email |-> ""], [kind |-> "invalid", email |-> ""]}
            \cup {[kind |-> "valid", email |-> e] : e \in Emails}
Throws == "throws"

\* A request timestamp: a wall-clock reading and its zone designator.
Time(w, z) == [wall |-> w, zone |-> z]
\* The (startTime, endTime) bodies of createShift and editShift.
ShiftTimes == {[startTime |-> Time(1, "Z"), endTime |-> Time(2, "Z")],
               [startTime |-> Time(2, "Z"), endTime |-> Time(1, "Z")],
               [startTime |-> Time(2, "+01:00"), endTime |-> Time(1, "Z")]}
NoWeight   == 0
Weights    == {NoWeight, 2}

VARIABLES
  db,       \* the tables: schedule, membership, shift, signup, shift_seq
  pre,      \* the tables as they were when the request in resp arrived
  resp,     \* the request being answered and its response
  inflight  \* requests that passed their permission lookup and await their mutation

vars == <<db, pre, resp, inflight>>

\* ------------------------------------------------------------------ tables
Schedule   == db.schedule       \* rows [id, owner_id, removed]
Membership == db.membership     \* user_schedule_membership rows [user_id, schedule_id, role]
Shift      == db.shift          \* rows [id, schedule_id, start_time, end_time]
Signup     == db.signup         \* user_shift_signup rows [user_id, shift_id, user_weighting]

\* The role view over the tables d: the owner of a schedule and its
\* members, for schedules whose removed timestamp is not set.
ScheduleInfo(d) ==
  {[user_id |-> s.owner_id, schedule_id |-> s.id, user_role |-> "owner"] :
      s \in {x \in d.schedule : ~x.removed}}
  \cup
  {[user_id |-> m.user_id, schedule_id |-> m.schedule_id, user_role |-> m.role] :
      m \in {x \in d.membership : \E s \in d.schedule : s.id = x.schedule_id /\ ~s.removed}}

schedule_info == ScheduleInfo(db)

\* The start/end view: one row per schedule.
schedule_start_end == {[schedule_id |-> s.id] : s \in Schedule}

\* rows[0].user_role of a result: the role of any of its rows.
FirstRowRoles(rows) == {r.user_role : r \in rows}

\* ---------------------------------------------------------- authentication
\* getUserId without the account lookup failing: a token whose email has
\* no account resolves to no user instead of throwing.
getUserId_NoAccountCheck(token) ==
  IF token.kind = "missing" THEN Throws
  ELSE IF token.kind = "invalid" THEN Throws
  ELSE LET rows == {u \in user_account : u.email = token.email}
       IN IF rows = {} THEN NoUser ELSE (CHOOSE u \in rows : TRUE).id

getUserId(token) ==
  IF token.kind = "missing" THEN Throws
  ELSE IF token.kind = "invalid" THEN Throws
  ELSE LET rows == {u \in user_account : u.email = token.email}
       IN IF rows = {} THEN Throws ELSE (CHOOSE u \in rows : TRUE).id

\* ---------------------------------------------------------------- outcomes
\* status: the HTTP status sent, or "throws" when the handler's promise
\* rejects before any response is sent.  body: the JSON rows sent.
Reply(status)           == [status |-> status, body |-> <<>>, db |-> db]
ReplyWith(status, b, d) == [status |-> status, body |-> b, db |-> d]
Thrown                  == [status |-> "throws", body |-> <<>>, db |-> db]

\* Every order in which a query without ORDER BY can return the rows S.
Orders(S) ==
  {q \in [1..Cardinality(S) -> S] : \A i, j \in DOMAIN q : i # j => q[i] # q[j]}

\* ------------------------------------------------------------- timestamps
\* start_time and end_time are timestamps without time zone: the zone
\* designator of the input is not stored.
ToTimestamp(t) == t.wall
\* (to_json(ts)#>>'{}')||'Z'
ToIsoZ(ts) == [wall |-> ts, zone |-> "Z"]

ShiftJson(s) ==
  [id |-> s.id, startTime |-> ToIsoZ(s.start_time), endTime |-> ToIsoZ(s.end_time)]

\* ---------------------------------------------------------------- handlers
InsertSchedule(userId) ==
  LET id == Cardinality(Schedule) + 1
  IN ReplyWith("201", <<[scheduleId |-> id]>>,
       [db EXCEPT !.schedule = @ \cup {[id |-> id, owner_id |-> userId, removed |-> FALSE]}])

create(token) ==
  LET userId == getUserId(token)
  IN IF userId = Throws THEN {Thrown} ELSE {InsertSchedule(userId)}

list(token, roles) ==
  LET userId == getUserId(token)
      filtered == {i \in schedule_info :
                     /\ \E se \in schedule_start_end : se.schedule_id = i.schedule_id
                     /\ i.user_id = userId
                     /\ i.user_role \in roles}
  IN IF userId = Throws THEN {Thrown}
     ELSE {ReplyWith("200", q, db) :
             q \in Orders({[id |-> i.schedule_id, role |-> i.user_role] : i \in filtered})}

\* The permission rows of a user for a schedule.
InfoRows(userId, scheduleId) ==
  {i \in schedule_info : i.user_id = userId /\ i.schedule_id = scheduleId}

getSchedule(token, scheduleId) ==
  LET userId == getUserId(token)
      rows == {i \in InfoRows(userId, scheduleId) :
                 \E se \in schedule_start_end : se.schedule_id = i.schedule_id}
  IN IF userId = Throws THEN {Thrown}
     ELSE IF rows = {} THEN {Reply("404")}
     ELSE {ReplyWith("200", <<[id |-> r.schedule_id, role |-> r.user_role]>>, db) : r \in rows}

\* Outcome of a handler's permission lookup: a status to send, or Pass.
Pass == "pass"

\* deleteScheduleAuth answering 403 where no permission row is found.
deleteScheduleAuth_NoRowForbidden(userId, scheduleId) ==
  LET rows == InfoRows(userId, scheduleId)
  IN IF rows = {} THEN {"403"}
     ELSE {IF ~(role = "owner" \/ role = "manager") THEN "403" ELSE Pass :
             role \in FirstRowRoles(rows)}

\* deleteSchedule, lines 152-174: role lookup and allow-list
deleteScheduleAuth(userId, scheduleId) ==
  LET rows == InfoRows(userId, scheduleId)
  IN IF rows = {} THEN {"404"}
     ELSE {IF ~(role = "owner" \/ role = "manager") THEN "403" ELSE Pass :
             role \in FirstRowRoles(rows)}

\* The schedule row deleted instead of marked removed.
UpdateRemoved_HardDelete(scheduleId) ==
  ReplyWith("204", <<>>, [db EXCEPT !.schedule = {s \in @ : s.id # scheduleId}])

\* update schedule set removed = current_timestamp where id = $1
UpdateRemoved(scheduleId) ==
  ReplyWith("204", <<>>,
    [db EXCEPT !.schedule =
       {IF s.id = scheduleId THEN [s EXCEPT !.removed = TRUE] ELSE s : s \in @}])

deleteSchedule(token, scheduleId) ==
  LET userId == getUserId(token)
  IN IF userId = Throws THEN {Thrown}
     ELSE {IF a = Pass THEN UpdateRemoved(scheduleId) ELSE Reply(a) :
             a \in deleteScheduleAuth(userId, scheduleId)}

\* The shifts of a schedule, ordered by start_time.
SortedShifts(scheduleId) ==
  {q \in Orders({s \in Shift : s.schedule_id = scheduleId}) :
     \A i, j \in DOMAIN q : i < j => q[i].start_time <= q[j].start_time}

getShifts(token, scheduleId) ==
  LET userId == getUserId(token)
  IN IF userId = Throws THEN {Thrown}
     ELSE IF InfoRows(userId, scheduleId) = {} THEN {Reply("404")}
     ELSE {ReplyWith("200", [i \in DOMAIN q |-> ShiftJson(q[i])], db) :
             q \in SortedShifts(scheduleId)}

createShiftAuth(userId, scheduleId) ==
  LET rows == InfoRows(userId, scheduleId)
  IN IF rows = {} THEN {"404"}
     ELSE {IF ~(role = "owner" \/ role = "manager") THEN "403" ELSE Pass :
             role \in FirstRowRoles(rows)}

\* The insert made conditional on the schedule still being there for the
\* permission view: nothing is inserted under a removed schedule.
InsertShift_IfNotRemoved(scheduleId, startTime, endTime) ==
  LET row == [id |-> db.shift_seq + 1, schedule_id |-> scheduleId,
              start_time |-> ToTimestamp(startTime), end_time |-> ToTimestamp(endTime)]
  IN IF \A s \in Schedule : s.id # scheduleId THEN Thrown
     ELSE IF \E s \in Schedule : s.id = scheduleId /\ s.removed
     THEN ReplyWith("201", <<>>, db)
     ELSE ReplyWith("201", <<ShiftJson(row)>>,
            [db EXCEPT !.shift = @ \cup {row}, !.shift_seq = @ + 1])

\* insert into shift (schedule_id, start_time, end_time) ... returning json;
\* the insert fails on the foreign key when the schedule row is missing.
InsertShift(scheduleId, startTime, endTime) ==
  LET row == [id |-> db.shift_seq + 1, schedule_id |-> scheduleId,
              start_time |-> ToTimestamp(startTime), end_time |-> ToTimestamp(endTime)]
  IN IF \A s \in Schedule : s.id # scheduleId THEN Thrown
     ELSE ReplyWith("201", <<ShiftJson(row)>>,
            [db EXCEPT !.shift = @ \cup {row}, !.shift_seq = @ + 1])

createShift(token, scheduleId, startTime, endTime) ==
  LET userId == getUserId(token)
  IN IF userId = Throws THEN {Thrown}
     ELSE {IF a = Pass THEN InsertShift(scheduleId, startTime, endTime) ELSE Reply(a) :
             a \in createShiftAuth(userId, scheduleId)}

getMembers(token, scheduleId) ==
  LET userId == getUserId(token)
      rows == InfoRows(userId, scheduleId)
      members == {[id |-> m.user_id] :
                    m \in {x \in Membership : x.schedule_id = scheduleId}}
  IN IF userId = Throws THEN {Thrown}
     ELSE IF rows = {} THEN {Reply("404")}
     ELSE UNION {IF ~(role = "owner" \/ role = "manager")
                 THEN {Reply("403")}
                 ELSE {ReplyWith("200", q, db) : q \in Orders(members)} :
                   role \in FirstRowRoles(rows)}

getSignups(token, scheduleId) ==
  LET userId == getUserId(token)
      rows == InfoRows(userId, scheduleId)
      json(sh) == [id |-> sh.id, startTime |-> ToIsoZ(sh.start_time),
                   endTime |-> ToIsoZ(sh.end_time),
                   signups |-> {[weight |-> g.user_weighting, user |-> g.user_id] :
                                  g \in {x \in Signup : x.shift_id = sh.id}}]
      shifts == {json(sh) : sh \in {x \in Shift :
                    \E s \in Schedule : s.id = x.schedule_id /\ s.id = scheduleId}}
  IN IF userId = Throws THEN {Thrown}
     ELSE IF rows = {} THEN {Reply("404")}
     ELSE UNION {IF ~(role = "owner" \/ role = "manager")
                 THEN {Reply("403")}
                 ELSE {ReplyWith("200", q, db) : q \in Orders(shifts)} :
                   role \in FirstRowRoles(rows)}

\* shift join schedule_info on shift.schedule_id = info.schedule_id
\* where info.user_id = $1 and shift.id = $2
ShiftInfoRows(userId, shiftId) ==
  {i \in schedule_info :
     /\ i.user_id = userId
     /\ \E sh \in Shift : sh.id = shiftId /\ sh.schedule_id = i.schedule_id}

deleteShiftAuth(userId, shiftId) ==
  LET rows == ShiftInfoRows(userId, shiftId)
  IN IF rows = {} THEN {"404"}
     ELSE {IF ~(role = "owner" \/ role = "manager") THEN "403" ELSE Pass :
             role \in FirstRowRoles(rows)}

\* delete from shift where id = $1.  The signups of the shift reference it:
\* the foreign key either removes them with the shift or rejects the delete.
DeleteShiftRow(shiftId) ==
  LET kept == {s \in Shift : s.id # shiftId}
      refs == {g \in Signup : g.shift_id = shiftId}
  IN {ReplyWith("204", <<>>, [db EXCEPT !.shift = kept, !.signup = @ \ refs])}
     \cup (IF refs # {} THEN {Thrown} ELSE {})

deleteShift(token, shiftId) ==
  LET userId == getUserId(token)
  IN IF userId = Throws THEN {Thrown}
     ELSE UNION {IF a = Pass THEN DeleteShiftRow(shiftId) ELSE {Reply(a)} :
                   a \in deleteShiftAuth(userId, shiftId)}

\* editShiftAuth with member on the allow-list.
editShiftAuth_MemberAllowed(userId, shiftId) ==
  LET rows == ShiftInfoRows(userId, shiftId)
  IN IF rows = {} THEN {"404"}
     ELSE {IF ~(role = "owner" \/ role = "manager" \/ role = "member") THEN "403" ELSE Pass :
             role \in FirstRowRoles(rows)}

editShiftAuth(userId, shiftId) ==
  LET rows == ShiftInfoRows(userId, shiftId)
  IN IF rows = {} THEN {"404"}
     ELSE {IF ~(role = "owner" \/ role = "manager") THEN "403" ELSE Pass :
             role \in FirstRowRoles(rows)}

\* update shift set start_time = $1, end_time = $2 where id = $3
UpdateShift(shiftId, startTime, endTime) ==
  ReplyWith("204", <<>>,
    [db EXCEPT !.shift =
       {IF s.id = shiftId
        THEN [s EXCEPT !.start_time = ToTimestamp(startTime),
                       !.end_time = ToTimestamp(endTime)]
        ELSE s : s \in @}])

editShift(token, shiftId, startTime, endTime) ==
  LET userId == getUserId(token)
  IN IF userId = Throws THEN {Thrown}
     ELSE {IF a = Pass THEN UpdateShift(shiftId, startTime, endTime) ELSE Reply(a) :
             a \in editShiftAuth(userId, shiftId)}

\* addSignupAuth whose self-service branch accepts every role.
addSignupAuth_SelfAnyRole(userId, shiftId, targetUserId) ==
  IF targetUserId # NoUser /\ targetUserId # userId
  THEN LET rows == {i \in schedule_info :
                      /\ i.user_id = userId
                      /\ \E sh \in Shift : sh.id = shiftId /\ i.schedule_id = sh.schedule_id
                      /\ \E usm \in Membership : i.schedule_id = usm.schedule_id}
           targetUserResults ==
                   {i \in schedule_info :
                      /\ i.user_id = targetUserId
                      /\ \E sh \in Shift : i.schedule_id = sh.schedule_id}
       IN IF rows = {} THEN {"404"}
          ELSE UNION {IF ~(role = "owner" \/ role = "manager") THEN {"403"}
                      ELSE IF targetUserResults = {} THEN {"400"}
                      ELSE {IF targetRole # "member" THEN "400" ELSE Pass :
                              targetRole \in FirstRowRoles(targetUserResults)} :
                        role \in FirstRowRoles(rows)}
  ELSE LET rows == ShiftInfoRows(userId, shiftId)
       IN IF rows = {} THEN {"404"} ELSE {Pass}

\* addSignup, lines 481-550: the permission lookups of both branches.
\* targetUserId is NoUser when the body carries no userId.
addSignupAuth(userId, shiftId, targetUserId) ==
  IF targetUserId # NoUser /\ targetUserId # userId
  THEN LET rows == {i \in schedule_info :
                      /\ i.user_id = userId
                      /\ \E sh \in Shift : sh.id = shiftId /\ i.schedule_id = sh.schedule_id
                      /\ \E usm \in Membership : i.schedule_id = usm.schedule_id}
           targetUserResults ==
                   {i \in schedule_info :
                      /\ i.user_id = targetUserId
                      /\ \E sh \in Shift : i.schedule_id = sh.schedule_id}
       IN IF rows = {} THEN {"404"}
          ELSE UNION {IF ~(role = "owner" \/ role = "manager") THEN {"403"}
                      ELSE IF targetUserResults = {} THEN {"400"}
                      ELSE {IF targetRole # "member" THEN "400" ELSE Pass :
                              targetRole \in FirstRowRoles(targetUserResults)} :
                        role \in FirstRowRoles(rows)}
  ELSE LET rows == ShiftInfoRows(userId, shiftId)
       IN IF rows = {} THEN {"404"}
          ELSE {IF role # "member" THEN "403" ELSE Pass : role \in FirstRowRoles(rows)}

\* targetUserId ?? userId
Coalesce(targetUserId, userId) == IF targetUserId = NoUser THEN userId ELSE targetUserId

\* The insert without its conflict clause taking effect: the row is added
\* beside an existing row of the same user and shift.
InsertSignup_NoConflict(userId, shiftId, targetUserId, weight) ==
  LET row == [user_id |-> Coalesce(targetUserId, userId), shift_id |-> shiftId,
              user_weighting |-> IF weight = NoWeight THEN DefaultWeight ELSE weight]
  IN IF \A sh \in Shift : sh.id # shiftId THEN Thrown
     ELSE ReplyWith("204", <<>>, [db EXCEPT !.signup = @ \cup {row}])

\* insert into user_shift_signup (user_id, shift_id, user_weighting)
\* values ($1, $2, $3) on conflict do nothing.  (user_id, shift_id) is
\* unique; the insert fails on the foreign key when the shift row is missing.
InsertSignup(userId, shiftId, targetUserId, weight) ==
  LET row == [user_id |-> Coalesce(targetUserId, userId), shift_id |-> shiftId,
              user_weighting |-> IF weight = NoWeight THEN DefaultWeight ELSE weight]
      conflict == \E g \in Signup : g.user_id = row.user_id /\ g.shift_id = row.shift_id
  IN IF \A sh \in Shift : sh.id # shiftId THEN Thrown
     ELSE IF conflict THEN ReplyWith("204", <<>>, db)
     ELSE ReplyWith("204", <<>>, [db EXCEPT !.signup = @ \cup {row}])

\* addSignup running its insert before the permission lookups.
addSignup_InsertFirst(token, shiftId, targetUserId, weight) ==
  LET userId == getUserId(token)
      inserted == InsertSignup(userId, shiftId, targetUserId, weight)
  IN IF userId = Throws THEN {Thrown}
     ELSE {IF a = Pass THEN inserted ELSE ReplyWith(a, <<>>, inserted.db) :
             a \in addSignupAuth(userId, shiftId, targetUserId)}

addSignup(token, shiftId, targetUserId, weight) ==
  LET userId == getUserId(token)
  IN IF userId = Throws THEN {Thrown}
     ELSE {IF a = Pass THEN InsertSignup(userId, shiftId, targetUserId, weight)
           ELSE Reply(a) : a \in addSignupAuth(userId, shiftId, targetUserId)}

\* deleteSignup, lines 571-641
deleteSignupAuth(userId, shiftId, targetUserId) ==
  IF targetUserId # NoUser /\ targetUserId # userId
  THEN LET rows == {i \in schedule_info :
                      /\ i.user_id = userId
                      /\ \E sh \in Shift : sh.id = shiftId /\ i.schedule_id = sh.schedule_id
                      /\ \E usm \in Membership : i.schedule_id = usm.schedule_id}
           targetUserResults ==
                   {i \in schedule_info :
                      /\ i.user_id = targetUserId
                      /\ \E sh \in Shift : i.schedule_id = sh.schedule_id}
       IN IF rows = {} THEN {"404"}
          ELSE UNION {IF ~(role = "owner" \/ role = "manager") THEN {"403"}
                      ELSE IF targetUserResults = {} THEN {"400"}
                      ELSE {IF targetRole # "member" THEN "400" ELSE Pass :
                              targetRole \in FirstRowRoles(targetUserResults)} :
                        role \in FirstRowRoles(rows)}
  ELSE LET rows == ShiftInfoRows(userId, shiftId)
       IN IF rows = {} THEN {"404"}
          ELSE {IF role # "member" THEN "403" ELSE Pass : role \in FirstRowRoles(rows)}

\* delete from user_shift_signup where user_id = $1 and shift_id = $2
DeleteSignupRow(userId, shiftId, targetUserId) ==
  ReplyWith("204", <<>>,
    [db EXCEPT !.signup =
       {g \in @ : ~(g.user_id = Coalesce(targetUserId, userId) /\ g.shift_id = shiftId)}])

deleteSignup(token, shiftId, targetUserId) ==
  LET userId == getUserId(token)
  IN IF userId = Throws THEN {Thrown}
     ELSE {IF a = Pass THEN DeleteSignupRow(userId, shiftId, targetUserId)
           ELSE Reply(a) : a \in deleteSignupAuth(userId, shiftId, targetUserId)}

\* ------------------------------------------------------------ initial state
\* No handler writes user_schedule_membership: its rows, and the schedules
\* they belong to, are there from the start.  A user has at most one row
\* per schedule and the owner of a schedule has none.  User ids are
\* interchangeable, so the owner of the i-th schedule is one of the first
\* i users.
InitSchedules ==
  UNION {{ {[id |-> i, owner_id |-> own[i], removed |-> FALSE] : i \in 1..k} :
             own \in {f \in [1..k -> Users] :
                        \A i \in 1..k : \E j \in 1..i : j \in DOMAIN UserSeq /\ f[i] = UserSeq[j]}} :
           k \in 0..MaxSchedules}

InitMemberships(schedules) ==
  LET pairs == {p \in Users \X {s.id : s \in schedules} :
                  \A s \in schedules : s.id = p[2] => s.owner_id # p[1]}
  IN UNION {{ {[user_id |-> p[1], schedule_id |-> p[2], role |-> r[p]] : p \in P} :
                r \in [P -> {"manager", "member"}]} :
              P \in {Q \in SUBSET pairs : Cardinality(Q) <= MaxMembers}}

NoTimes == [startTime |-> Time(0, "-"), endTime |-> Time(0, "-")]
NoToken == [kind |-> "none", email |-> ""]

NoRequest ==
  [op |-> "none", token |-> NoToken, schedule |-> NoId, shift |-> NoId,
   target |-> NoUser, weight |-> NoWeight, times |-> NoTimes,
   status |-> "none", body |-> <<>>]

Init ==
  /\ \E schedules \in InitSchedules :
       \E members \in InitMemberships(schedules) :
         db = [schedule |-> schedules, membership |-> members,
               shift |-> {}, signup |-> {}, shift_seq |-> 0]
  /\ pre = db
  /\ resp = NoRequest
  /\ inflight = {}

\* ----------------------------------------------------------------- actions
\* The id generators and the signup table stay within the bounds.
WithinBounds(d) ==
  /\ Cardinality(d.schedule) <= MaxSchedules
  /\ d.shift_seq <= MaxShifts
  /\ Cardinality(d.signup) <= MaxSignups

Request(op, token, scheduleId, shiftId, targetUserId, weight, times) ==
  [op |-> op, token |-> token, schedule |-> scheduleId, shift |-> shiftId,
   target |-> targetUserId, weight |-> weight, times |-> times]

\* Apply one outcome of the handler and send the response.
Respond(req, outcomes) ==
  \E o \in outcomes :
    /\ WithinBounds(o.db)
    /\ db' = o.db
    /\ pre' = db
    /\ resp' = [op |-> req.op, token |-> req.token, schedule |-> req.schedule,
                shift |-> req.shift, target |-> req.target, weight |-> req.weight,
                times |-> req.times, status |-> o.status, body |-> o.body]
    /\ UNCHANGED inflight

\* Requests are handled one after the other: the server takes the next one
\* when the response to the last has been delivered.
Idle == resp = NoRequest

\* The values a request parameter ranges over.  A handler throws in
\* getUserId before it uses its parameters, so one value stands for all of
\* them in a request that fails authentication.
Param(token, values, none) == IF getUserId(token) = Throws THEN {none} ELSE values

Targets == Users \cup {NoUser}
RoleFilters == {{"owner"}, {"manager", "member"}}

Create ==
  /\ Idle
  /\ \E token \in Tokens :
       Respond(Request("create", token, NoId, NoId, NoUser, NoWeight, NoTimes), create(token))

List ==
  /\ Idle
  /\ \E token \in Tokens :
       \E roles \in Param(token, RoleFilters, {}) :
         Respond(Request("list", token, NoId, NoId, NoUser, NoWeight, NoTimes),
                 list(token, roles))

GetSchedule ==
  /\ Idle
  /\ \E token \in Tokens :
       \E scheduleId \in Param(token, ScheduleIds, NoId) :
         Respond(Request("getSchedule", token, scheduleId, NoId, NoUser, NoWeight, NoTimes),
                 getSchedule(token, scheduleId))

DeleteSchedule ==
  /\ Idle
  /\ \E token \in Tokens :
       \E scheduleId \in Param(token, ScheduleIds, NoId) :
         Respond(Request("deleteSchedule", token, scheduleId, NoId, NoUser, NoWeight, NoTimes),
                 deleteSchedule(token, scheduleId))

GetShifts ==
  /\ Idle
  /\ \E token \in Tokens :
       \E scheduleId \in Param(token, ScheduleIds, NoId) :
         Respond(Request("getShifts", token, scheduleId, NoId, NoUser, NoWeight, NoTimes),
                 getShifts(token, scheduleId))

CreateShift ==
  /\ Idle
  /\ \E token \in Tokens :
       \E scheduleId \in Param(token, ScheduleIds, NoId), times \in Param(token, ShiftTimes, NoTimes) :
         Respond(Request("createShift", token, scheduleId, NoId, NoUser, NoWeight, times),
                 createShift(token, scheduleId, times.startTime, times.endTime))

GetMembers ==
  /\ Idle
  /\ \E token \in Tokens :
       \E scheduleId \in Param(token, ScheduleIds, NoId) :
         Respond(Request("getMembers", token, scheduleId, NoId, NoUser, NoWeight, NoTimes),
                 getMembers(token, scheduleId))

GetSignups ==
  /\ Idle
  /\ \E token \in Tokens :
       \E scheduleId \in Param(token, ScheduleIds, NoId) :
         Respond(Request("getSignups", token, scheduleId, NoId, NoUser, NoWeight, NoTimes),
                 getSignups(token, scheduleId))

DeleteShift ==
  /\ Idle
  /\ \E token \in Tokens :
       \E shiftId \in Param(token, ShiftIds, NoId) :
         Respond(Request("deleteShift", token, NoId, shiftId, NoUser, NoWeight, NoTimes),
                 deleteShift(token, shiftId))

EditShift ==
  /\ Idle
  /\ \E token \in Tokens :
       \E shiftId \in Param(token, ShiftIds, NoId), times \in Param(token, ShiftTimes, NoTimes) :
         Respond(Request("editShift", token, NoId, shiftId, NoUser, NoWeight, times),
                 editShift(token, shiftId, times.startTime, times.endTime))

AddSignup ==
  /\ Idle
  /\ \E token \in Tokens :
       \E shiftId \in Param(token, ShiftIds, NoId), targetUserId \in Param(token, Targets, NoUser),
          weight \in Param(token, Weights, NoWeight) :
         Respond(Request("addSignup", token, NoId, shiftId, targetUserId, weight, NoTimes),
                 addSignup(token, shiftId, targetUserId, weight))

DeleteSignup ==
  /\ Idle
  /\ \E token \in Tokens :
       \E shiftId \in Param(token, ShiftIds, NoId), targetUserId \in Param(token, Targets, NoUser) :
         Respond(Request("deleteSignup", token, NoId, shiftId, targetUserId, NoWeight, NoTimes),
                 deleteSignup(token, shiftId, targetUserId))

\* The response has been delivered.
Done ==
  /\ resp # NoRequest
  /\ resp' = NoRequest
  /\ pre' = db
  /\ UNCHANGED <<db, inflight>>

Next ==
  \/ Done
  \/ Create
  \/ List
  \/ GetSchedule
  \/ DeleteSchedule
  \/ GetShifts
  \/ CreateShift
  \/ GetMembers
  \/ GetSignups
  \/ DeleteShift
  \/ EditShift
  \/ AddSignup
  \/ DeleteSignup

Spec == Init /\ [][Next]_vars

\* ------------------------------------------------- interleaved requests
\* The permission lookup and the mutation of a handler are separate awaited
\* queries: the queries of other requests can run between them.  Begin is a
\* request whose lookups pass; Finish is its mutation, run on the tables as
\* they are by then, and its response.
CanBegin == Idle /\ Cardinality(inflight) < MaxInFlight

Begin(req) ==
  /\ inflight' = inflight \cup {req}
  /\ UNCHANGED <<db, pre, resp>>

Finish(req, outcomes) ==
  /\ \E o \in outcomes :
       /\ WithinBounds(o.db)
       /\ db' = o.db
       /\ pre' = db
       /\ resp' = [op |-> req.op, token |-> req.token, schedule |-> req.schedule,
                   shift |-> req.shift, target |-> req.target, weight |-> req.weight,
                   times |-> req.times, status |-> o.status, body |-> o.body]
  /\ inflight' = inflight \ {req}

ValidTokens == {t \in Tokens : getUserId(t) # Throws}

BeginDeleteSchedule ==
  /\ CanBegin
  /\ \E token \in ValidTokens, scheduleId \in ScheduleIds :
       /\ Pass \in deleteScheduleAuth(getUserId(token), scheduleId)
       /\ Begin(Request("deleteSchedule", token, scheduleId, NoId, NoUser, NoWeight, NoTimes))

FinishDeleteSchedule ==
  /\ Idle
  /\ \E req \in inflight :
       /\ req.op = "deleteSchedule"
       /\ Finish(req, {UpdateRemoved(req.schedule)})

BeginCreateShift ==
  /\ CanBegin
  /\ \E token \in ValidTokens, scheduleId \in ScheduleIds, times \in ShiftTimes :
       /\ Pass \in createShiftAuth(getUserId(token), scheduleId)
       /\ Begin(Request("createShift", token, scheduleId, NoId, NoUser, NoWeight, times))

FinishCreateShift ==
  /\ Idle
  /\ \E req \in inflight :
       /\ req.op = "createShift"
       /\ Finish(req, {InsertShift(req.schedule, req.times.startTime, req.times.endTime)})

BeginDeleteShift ==
  /\ CanBegin
  /\ \E token \in ValidTokens, shiftId \in ShiftIds :
       /\ Pass \in deleteShiftAuth(getUserId(token), shiftId)
       /\ Begin(Request("deleteShift", token, NoId, shiftId, NoUser, NoWeight, NoTimes))

FinishDeleteShift ==
  /\ Idle
  /\ \E req \in inflight :
       /\ req.op = "deleteShift"
       /\ Finish(req, DeleteShiftRow(req.shift))

BeginAddSignup ==
  /\ CanBegin
  /\ \E token \in ValidTokens, shiftId \in ShiftIds, targetUserId \in Targets, weight \in Weights :
       /\ Pass \in addSignupAuth(getUserId(token), shiftId, targetUserId)
       /\ Begin(Request("addSignup", token, NoId, shiftId, targetUserId, weight, NoTimes))

FinishAddSignup ==
  /\ Idle
  /\ \E req \in inflight :
       /\ req.op = "addSignup"
       /\ Finish(req, {InsertSignup(getUserId(req.token), req.shift, req.target, req.weight)})

BeginDeleteSignup ==
  /\ CanBegin
  /\ \E token \in ValidTokens, shiftId \in ShiftIds, targetUserId \in Targets :
       /\ Pass \in deleteSignupAuth(getUserId(token), shiftId, targetUserId)
       /\ Begin(Request("deleteSignup", token, NoId, shiftId, targetUserId, NoWeight, NoTimes))

FinishDeleteSignup ==
  /\ Idle
  /\ \E req \in inflight :
       /\ req.op = "deleteSignup"
       /\ Finish(req, {DeleteSignupRow(getUserId(req.token), req.shift, req.target)})

NextInterleaved ==
  \/ Done
  \/ BeginDeleteSchedule
  \/ FinishDeleteSchedule
  \/ BeginCreateShift
  \/ FinishCreateShift
  \/ BeginDeleteShift
  \/ FinishDeleteShift
  \/ BeginAddSignup
  \/ FinishAddSignup
  \/ BeginDeleteSignup
  \/ FinishDeleteSignup

\* The interleavings are explored from the databases that hold one schedule
\* and its memberships.
InitInterleaved == Init /\ Cardinality(db.schedule) = 1

SpecInterleaved == InitInterleaved /\ [][NextInterleaved]_vars

\* ------------------------------------------------------------------ claims
\* In a state with a response outstanding, pre holds the tables the request
\* found and db the tables it left.
CallerOf(r) == getUserId(r.token)
Authenticated(r) == r.op # "none" /\ CallerOf(r) # Throws
Delegated(r) == r.target # NoUser /\ r.target # CallerOf(r)

ScheduleOps == {"getSchedule", "deleteSchedule", "getShifts", "createShift",
                "getMembers", "getSignups"}
ShiftOps    == {"deleteShift", "editShift", "addSignup", "deleteSignup"}

\* The schedule a request addresses: the schedule named, or the schedule of
\* the shift named (none when there is no such shift).
Addressed(d, r) ==
  IF r.op \in ScheduleOps THEN {r.schedule}
  ELSE {sh.schedule_id : sh \in {x \in d.shift : x.id = r.shift}}

\* The roles the permission view gives a user on a schedule.
RolesOn(d, userId, scheduleId) ==
  {i.user_role : i \in {x \in ScheduleInfo(d) :
                          x.user_id = userId /\ x.schedule_id = scheduleId}}

IsMember(d, userId, scheduleId) ==
  \E m \in d.membership :
    m.user_id = userId /\ m.schedule_id = scheduleId /\ m.role = "member"

HasSignup(d, userId, shiftId) ==
  \E g \in d.signup : g.user_id = userId /\ g.shift_id = shiftId

\* C1: a schedule- or shift-scoped handler answers 404, never 403, to an
\* authenticated caller who has no row in the permission view for the
\* schedule addressed (or for the schedule of the shift addressed), in the
\* self-service and in the delegated branch of addSignup and deleteSignup.
C1_NoRowIs404 ==
  (/\ resp.op \in ScheduleOps \cup ShiftOps
   /\ Authenticated(resp)
   /\ \A sid \in Addressed(pre, resp) : RolesOn(pre, CallerOf(resp), sid) = {})
  => resp.status = "404"

\* A delegated addSignup for an existing shift by a caller without a row
\* for the shift's schedule was answered 404.
C1_Witness ==
  /\ resp.op = "addSignup"
  /\ Authenticated(resp)
  /\ Delegated(resp)
  /\ Addressed(pre, resp) # {}
  /\ \A sid \in Addressed(pre, resp) : RolesOn(pre, CallerOf(resp), sid) = {}
  /\ resp.status = "404"

\* C2: createShift, deleteShift and editShift answer 403 to a caller whose
\* role on the shift's schedule is member, and leave the shift table as it
\* was.
C2_MemberCannotMutateShifts ==
  (/\ resp.op \in {"createShift", "deleteShift", "editShift"}
   /\ Authenticated(resp)
   /\ \E sid \in Addressed(pre, resp) : RolesOn(pre, CallerOf(resp), sid) = {"member"})
  => (resp.status = "403" /\ db.shift = pre.shift)

\* A member asked to edit an existing shift of the schedule and got 403.
C2_Witness ==
  /\ resp.op = "editShift"
  /\ Authenticated(resp)
  /\ \E sid \in Addressed(pre, resp) : RolesOn(pre, CallerOf(resp), sid) = {"member"}
  /\ resp.status = "403"
  /\ db.shift = pre.shift

\* C3: a delegated addSignup by the owner of the shift's schedule answers
\* 400 and inserts nothing when the target is not a member of that schedule,
\* and answers 204 with a signup for (target, shift) in place when the target
\* is a member of it.
C3_DelegatedAddSignup ==
  (/\ resp.op = "addSignup"
   /\ Authenticated(resp)
   /\ Delegated(resp))
  => \A sid \in Addressed(pre, resp) :
       "owner" \in RolesOn(pre, CallerOf(resp), sid) =>
         IF IsMember(pre, resp.target, sid)
         THEN resp.status = "204" /\ HasSignup(db, resp.target, resp.shift)
         ELSE resp.status = "400" /\ db.signup = pre.signup

\* C4: every signup row refers to a user who holds the role member on the
\* schedule of the signup's shift.
C4_SignupsOfMembers ==
  \A g \in db.signup :
    \E sh \in db.shift :
      sh.id = g.shift_id /\ IsMember(db, g.user_id, sh.schedule_id)

\* C5: a (user, shift) pair has at most one signup row, and an addSignup
\* for a pair that already has a row, when it passes the permission checks,
\* is answered 204 and leaves the signup table, the weight of the existing
\* row included, as it was.
C5_AddSignupIdempotent ==
  /\ \A g1, g2 \in db.signup :
       (g1.user_id = g2.user_id /\ g1.shift_id = g2.shift_id) => g1 = g2
  /\ (/\ resp.op = "addSignup"
      /\ Authenticated(resp)
      /\ HasSignup(pre, Coalesce(resp.target, CallerOf(resp)), resp.shift))
     => /\ resp.status \in {"204", "400", "403", "404"}
        /\ db.signup = pre.signup

\* A second addSignup for a pair, with another weight than the row holds,
\* was answered 204 and changed nothing.
C5_Witness ==
  /\ resp.op = "addSignup"
  /\ Authenticated(resp)
  /\ resp.status = "204"
  /\ \E g \in pre.signup :
       /\ g.user_id = Coalesce(resp.target, CallerOf(resp))
       /\ g.shift_id = resp.shift
       /\ g.user_weighting # (IF resp.weight = NoWeight THEN DefaultWeight ELSE resp.weight)
  /\ db.signup = pre.signup

\* C6: deleteSchedule answering 204 sets the removed mark of the schedule
\* and deletes no schedule row; the mark is set by nothing else and is never
\* cleared; getSchedule for a schedule that carries the mark answers 404 to
\* every authenticated caller.
C6_SoftDelete ==
  /\ (resp.op = "deleteSchedule" /\ resp.status = "204")
       => \E s \in db.schedule : s.id = resp.schedule /\ s.removed
  /\ \A s \in pre.schedule :
       \E t \in db.schedule : t.id = s.id /\ (s.removed => t.removed)
  /\ \A t \in db.schedule :
       t.removed =>
         \/ \E s \in pre.schedule : s.id = t.id /\ s.removed
         \/ resp.op = "deleteSchedule" /\ resp.status = "204" /\ resp.schedule = t.id
  /\ (/\ resp.op = "getSchedule"
      /\ Authenticated(resp)
      /\ \E s \in pre.schedule : s.id = resp.schedule /\ s.removed)
     => resp.status = "404"

\* The owner of a schedule that was removed asked for it and got 404.
C6_Witness ==
  /\ resp.op = "getSchedule"
  /\ \E s \in pre.schedule :
       s.id = resp.schedule /\ s.removed /\ s.owner_id = CallerOf(resp)
  /\ resp.status = "404"

\* C7: a request answered 400, 403 or 404 leaves every table as it was;
\* the tables change only in a request answered 201 or 204.
C7_FailureChangesNothing ==
  /\ resp.status \in {"400", "403", "404"} => db = pre
  /\ db # pre => resp.status \in {"201", "204"}

\* A delegated addSignup was answered 400 and changed nothing.
C7_Witness ==
  /\ resp.op = "addSignup"
  /\ resp.status = "400"
  /\ db = pre

\* C8: a self-service addSignup or deleteSignup (no target, or the caller as
\* target) is answered 204 only to a caller whose role on the shift's
\* schedule is member, and then the caller's signup for the shift is there
\* resp. gone; an owner or manager is answered 403 and the signup table is
\* as it was.
C8_SelfService ==
  (/\ resp.op \in {"addSignup", "deleteSignup"}
   /\ Authenticated(resp)
   /\ ~Delegated(resp))
  => /\ resp.status = "204" =>
          /\ \E sid \in Addressed(pre, resp) : RolesOn(pre, CallerOf(resp), sid) = {"member"}
          /\ resp.op = "addSignup" => HasSignup(db, CallerOf(resp), resp.shift)
          /\ resp.op = "deleteSignup" => ~HasSignup(db, CallerOf(resp), resp.shift)
     /\ (\E sid \in Addressed(pre, resp) :
            RolesOn(pre, CallerOf(resp), sid) \cap {"owner", "manager"} # {})
          => (resp.status = "403" /\ db.signup = pre.signup)

\* A member named as the target of the own request was signed up.
C8_Witness ==
  /\ resp.op = "addSignup"
  /\ Authenticated(resp)
  /\ resp.target = CallerOf(resp)
  /\ resp.status = "204"
  /\ ~HasSignup(pre, CallerOf(resp), resp.shift)
  /\ HasSignup(db, CallerOf(resp), resp.shift)

\* C9: a request without a bearer token, with a token that fails
\* verification, or with a token whose email matches no user_account row
\* ends in an error, not a response, and changes no table.
C9_AuthenticationGate ==
  (/\ resp.op # "none"
   /\ \/ resp.token.kind \in {"missing", "invalid"}
      \/ \A u \in user_account : u.email # resp.token.email)
  => (resp.status = "throws" /\ db = pre)

\* A verified token of an email without an account asked to create a
\* schedule and the request threw.
C9_Witness ==
  /\ resp.op = "create"
  /\ resp.token.kind = "valid"
  /\ \A u \in user_account : u.email # resp.token.email
  /\ resp.status = "throws"
  /\ db = pre

\* C10: the 201 response of createShift reports the start and end time of
\* the request, getShifts reports the stored shifts of the schedule, and
\* after editShift the shift reports the start and end time of the edit.
C10_ShiftTimesRoundTrip ==
  /\ (resp.op = "createShift" /\ resp.status = "201")
       => /\ resp.body[1].startTime = resp.times.startTime
          /\ resp.body[1].endTime = resp.times.endTime
  /\ (resp.op = "editShift" /\ resp.status = "204")
       => \A sh \in db.shift :
            sh.id = resp.shift =>
              /\ ShiftJson(sh).startTime = resp.times.startTime
              /\ ShiftJson(sh).endTime = resp.times.endTime
  /\ (resp.op = "getShifts" /\ resp.status = "200")
       => {resp.body[i] : i \in DOMAIN resp.body}
            = {ShiftJson(sh) : sh \in {x \in pre.shift : x.schedule_id = resp.schedule}}

\* C11: the permission query and the mutation of a handler are separate
\* round trips, so the mutation runs on the tables as they are by then: a
\* createShift that passed its role check inserts its shift and answers 201
\* whatever has happened to the schedule since, the caller being owner or
\* manager by the schedule and membership rows alone.
C11_CheckThenAct ==
  (resp.op = "createShift" /\ resp.status = "201")
  => /\ \E sh \in db.shift \ pre.shift : sh.schedule_id = resp.schedule
     /\ \/ \E s \in pre.schedule :
             s.id = resp.schedule /\ s.owner_id = CallerOf(resp)
        \/ \E m \in pre.membership :
             /\ m.schedule_id = resp.schedule
             /\ m.user_id = CallerOf(resp)
             /\ m.role = "manager"

\* createShift passed its role check, a deleteSchedule in between removed
\* the schedule, and createShift still inserted the shift and answered 201,
\* the caller having no row in the permission view by then.
C11_Witness ==
  /\ resp.op = "createShift"
  /\ resp.status = "201"
  /\ \E s \in pre.schedule : s.id = resp.schedule /\ s.removed
  /\ RolesOn(pre, CallerOf(resp), resp.schedule) = {}
  /\ \E sh \in db.shift \ pre.shift : sh.schedule_id = resp.schedule

\* C12: in the delegated branch of addSignup and deleteSignup a caller who
\* is owner or manager of the schedule of an existing shift is answered 204
\* or 400, never 404, whatever the membership table holds.
C12_DelegatedNever404 ==
  (/\ resp.op \in {"addSignup", "deleteSignup"}
   /\ Authenticated(resp)
   /\ Delegated(resp)
   /\ \E sid \in Addressed(pre, resp) :
        RolesOn(pre, CallerOf(resp), sid) \cap {"owner", "manager"} # {})
  => resp.status \in {"204", "400"}

====
